---- MODULE Spec2Model ----
(***************************************************************************)
(* A model of the buggywug debugging session engine: the DebugEngine       *)
(* (src/core/debugEngine.ts), the ErrorDetector it classifies with         *)
(* (src/core/errorDetector.ts) and the OllamaService calls it awaits       *)
(* (src/services/ollamaService.ts).                                        *)
(*                                                                         *)
(* Representation choices.                                                 *)
(*  - A string is a sequence of lexemes (<<"SyntaxError", ": ", "x">> is   *)
(*    the string "SyntaxError: x").  Every literal of a regular expression *)
(*    of the source is a sequence of the same lexemes, so that a match of  *)
(*    the source's expression on the string is a match of the modelled     *)
(*    pattern on the sequence.  "" is <<>>.                                *)
(*  - An optional value (a `?:` field, a `| null` result) is a sequence of *)
(*    length 0 (absent) or 1 (present).                                    *)
(*  - A confidence is kept in hundredths: 0.8 is 80.                       *)
(*  - An async method is cut at its awaits: the step that invokes it runs  *)
(*    to the first await (or to its return or throw), the later steps      *)
(*    resume it with what the awaited operation produced, and a last step  *)
(*    hands the settled promise to the caller.                             *)
(***************************************************************************)
EXTENDS Integers, Sequences, FiniteSets, TLC

None == <<>>
Some(x) == <<x>>
IsSome(o) == Len(o) = 1
Get(o) == o[1]

Max(S) == CHOOSE x \in S : \A y \in S : y <= x
Min(S) == CHOOSE x \in S : \A y \in S : x <= y

(***************************************************************************)
(* Strings.                                                                *)
(***************************************************************************)
NL == "\n"

\* Lexemes made of white space only (String.prototype.trim removes them).
IsSpace(t) == t \in {" ", NL, "    "}

\* Lexemes made of decimal digits only, with the number they denote and
\* the power of ten of their width.
DigitVal ==
  [t \in {"1", "3", "7", "15", "30", "42", "999"} |->
     CASE t = "1" -> <<1, 10>>    [] t = "3" -> <<3, 10>>
       [] t = "7" -> <<7, 10>>    [] t = "15" -> <<15, 100>>
       [] t = "30" -> <<30, 100>> [] t = "42" -> <<42, 100>>
       [] t = "999" -> <<999, 1000>>]
IsDigits(t) == t \in DOMAIN DigitVal

\* Lexemes holding one of the characters ( ) :
HasParenOrColon(t) == t \in {"(", ")", ":", ": ", " ("}

RECURSIVE parseInt(_)
parseInt(s) ==
  IF s = <<>> THEN 0
  ELSE LET n == Len(s)
       IN parseInt(SubSeq(s, 1, n - 1)) * DigitVal[s[n]][2] + DigitVal[s[n]][1]

RECURSIVE trimStart(_)
trimStart(s) ==
  IF s # <<>> /\ IsSpace(s[1]) THEN trimStart(Tail(s)) ELSE s

RECURSIVE trimEnd(_)
trimEnd(s) ==
  IF s # <<>> /\ IsSpace(s[Len(s)]) THEN trimEnd(SubSeq(s, 1, Len(s) - 1)) ELSE s

trim(s) == trimEnd(trimStart(s))

\* s.split('\n')[0]
FirstLine(s) ==
  LET nls == {i \in 1..Len(s) : s[i] = NL}
  IN IF nls = {} THEN s ELSE SubSeq(s, 1, Min(nls) - 1)

\* a || b on strings: the empty string is falsy
OrElse(a, b) == IF a # <<>> THEN a ELSE b

(***************************************************************************)
(* Regular expressions made of literals and (.+) groups.                   *)
(***************************************************************************)
Lit(t) == [k |-> "lit", t |-> t]
Dot == [k |-> "dot", t |-> ""]

NoMatch == [ok |-> FALSE, end |-> 0, groups |-> <<>>]

\* The number of lexemes from position i on that `.` accepts (no newline).
RECURSIVE DotRun(_, _)
DotRun(text, i) ==
  IF i > Len(text) \/ text[i] = NL THEN 0 ELSE 1 + DotRun(text, i + 1)

\* Elements j.. of pat matched at position i of text, a (.+) taking the
\* longest run that lets the rest match (greedy, backtracking).
RECURSIVE MatchFrom(_, _, _, _)
MatchFrom(pat, text, j, i) ==
  IF j > Len(pat) THEN [ok |-> TRUE, end |-> i, groups |-> <<>>]
  ELSE IF pat[j].k = "lit"
  THEN IF i <= Len(text) /\ text[i] = pat[j].t
       THEN MatchFrom(pat, text, j + 1, i + 1)
       ELSE NoMatch
  ELSE LET ks == {k \in 1..DotRun(text, i) : MatchFrom(pat, text, j + 1, i + k).ok}
       IN IF ks = {} THEN NoMatch
          ELSE LET k == Max(ks)
                   r == MatchFrom(pat, text, j + 1, i + k)
               IN [ok |-> TRUE, end |-> r.end,
                   groups |-> <<SubSeq(text, i, i + k - 1)>> \o r.groups]

\* String.prototype.match without the g flag: the leftmost match; m0 is
\* match[0], m1 is match[1] (absent when the expression has no group).
RegexMatch(text, pat) ==
  LET starts == {i \in 1..(Len(text) + 1) : MatchFrom(pat, text, 1, i).ok}
  IN IF starts = {} THEN [ok |-> FALSE, m0 |-> <<>>, m1 |-> None]
     ELSE LET i == Min(starts)
              r == MatchFrom(pat, text, 1, i)
          IN [ok |-> TRUE, m0 |-> SubSeq(text, i, r.end - 1),
              m1 |-> IF r.groups = <<>> THEN None ELSE Some(r.groups[1])]

(***************************************************************************)
(* types/index.ts                                                          *)
(***************************************************************************)
ErrorType == {"syntax", "runtime", "type", "command", "module", "permission", "unknown"}
FixType == {"command", "file_edit", "install_package", "permission_change", "config_update"}

(***************************************************************************)
(* ErrorDetector                                                           *)
(***************************************************************************)
\* The patterns object, in the order Object.entries enumerates it.
patterns ==
  << [type |-> "syntax", list |-> <<
        <<Lit("SyntaxError"), Lit(": "), Dot>>,
        <<Lit("ParseError"), Lit(": "), Dot>>,
        <<Lit("Unexpected token"), Lit(" "), Dot>>,
        <<Lit("Unterminated"), Lit(" "), Dot>> >>],
     [type |-> "type", list |-> <<
        <<Lit("TypeError"), Lit(": "), Dot>>,
        <<Lit("Type"), Lit(" "), Lit("'"), Dot, Lit("'"), Lit(" "),
          Lit("is not assignable to type"), Lit(" "), Lit("'"), Dot, Lit("'")>>,
        <<Lit("Property"), Lit(" "), Lit("'"), Dot, Lit("'"), Lit(" "),
          Lit("does not exist on type"), Lit(" "), Lit("'"), Dot, Lit("'")>> >>],
     [type |-> "module", list |-> <<
        <<Lit("Cannot find module"), Lit(" "), Lit("'"), Dot, Lit("'")>>,
        <<Lit("Module not found"), Lit(": "), Dot>>,
        <<Lit("Failed to resolve import"), Lit(" "), Lit("\""), Dot, Lit("\"")>>,
        <<Lit("No module named"), Lit(" "), Lit("'"), Dot, Lit("'")>> >>],
     [type |-> "runtime", list |-> <<
        <<Lit("ReferenceError"), Lit(": "), Dot>>,
        <<Lit("RangeError"), Lit(": "), Dot>>,
        <<Lit("Maximum call stack size exceeded")>> >>],
     [type |-> "permission", list |-> <<
        <<Lit("Permission denied")>>,
        <<Lit("EACCES"), Lit(": "), Lit("permission denied")>>,
        <<Lit("Operation not permitted")>> >>],
     [type |-> "command", list |-> <<
        <<Lit("command not found"), Lit(": "), Dot>>,
        <<Lit("bash"), Lit(": "), Dot, Lit(": "), Lit("command not found")>>,
        <<Lit("zsh"), Lit(": "), Lit("command not found"), Lit(": "), Dot>> >>] >>

\* [^():]+ : the number of lexemes from position i on without ( ) :
RECURSIVE ClassRun(_, _)
ClassRun(text, i) ==
  IF i > Len(text) \/ HasParenOrColon(text[i]) THEN 0 ELSE 1 + ClassRun(text, i + 1)

\* \d+ : the number of lexemes from position i on made of digits
RECURSIVE DigitRun(_, _)
DigitRun(text, i) ==
  IF i > Len(text) \/ ~IsDigits(text[i]) THEN 0 ELSE 1 + DigitRun(text, i + 1)

\* ([^():]+):(\d+) at position p
FileTailAt(text, p) ==
  LET run == ClassRun(text, p)
      q == p + run
      digits == DigitRun(text, q + 1)
  IN IF run >= 1 /\ q <= Len(text) /\ text[q] = ":" /\ digits >= 1
     THEN [ok |-> TRUE, file |-> SubSeq(text, p, q - 1),
           line |-> SubSeq(text, q + 1, q + digits)]
     ELSE [ok |-> FALSE, file |-> <<>>, line |-> <<>>]

\* The location pattern without its optional group (?:.*\()?
FileMatchAt_noParen(text, i) ==
  IF ~(i <= Len(text) /\ text[i] \in {"at ", "in ", "from "})
  THEN [ok |-> FALSE, file |-> <<>>, line |-> <<>>]
  ELSE FileTailAt(text, i + 1)

\* (?:at |in |from )(?:.*\()?([^():]+):(\d+) at position i
FileMatchAt(text, i) ==
  IF ~(i <= Len(text) /\ text[i] \in {"at ", "in ", "from "})
  THEN [ok |-> FALSE, file |-> <<>>, line |-> <<>>]
  ELSE LET ks == {k \in 0..DotRun(text, i + 1) :
                    /\ i + 1 + k <= Len(text)
                    /\ text[i + 1 + k] = "("
                    /\ FileTailAt(text, i + 2 + k).ok}
       IN IF ks # {} THEN FileTailAt(text, i + 2 + Max(ks))
          ELSE FileTailAt(text, i + 1)

\* fullError.match(/(?:at |in |from )(?:.*\()?([^():]+):(\d+)/)
FileMatch(text) ==
  LET starts == {i \in 1..Len(text) : FileMatchAt(text, i).ok}
  IN IF starts = {} THEN [ok |-> FALSE, file |-> <<>>, line |-> <<>>]
     ELSE FileMatchAt(text, Min(starts))

\* `${detail}` of an optional string
Interpolate(detail) == IF IsSome(detail) THEN Get(detail) ELSE <<"undefined">>

\* createAnalysis taking the whole error text for the message
createAnalysis_rawMessage(type, message, fullError, detail) ==
  LET fileMatch == FileMatch(fullError)
  IN [type |-> type,
      message |-> fullError,
      confidence |-> 80,
      file |-> IF fileMatch.ok THEN Some(fileMatch.file) ELSE None,
      line |-> IF fileMatch.ok THEN Some(parseInt(fileMatch.line)) ELSE None,
      suggestion |->
        CASE type = "module" ->
               Some(<<"Install missing module", ": ">> \o Interpolate(detail))
          [] type = "command" ->
               Some(<<"Command not found", ": ">> \o Interpolate(detail)
                    \o <<". Check if it's installed or in PATH.">>)
          [] type = "permission" ->
               Some(<<"Try running with elevated permissions or check file ownership.">>)
          [] OTHER -> None]

createAnalysis(type, message, fullError, detail) ==
  LET fileMatch == FileMatch(fullError)
  IN [type |-> type,
      message |-> message,
      confidence |-> 80,
      file |-> IF fileMatch.ok THEN Some(fileMatch.file) ELSE None,
      line |-> IF fileMatch.ok THEN Some(parseInt(fileMatch.line)) ELSE None,
      suggestion |->
        CASE type = "module" ->
               Some(<<"Install missing module", ": ">> \o Interpolate(detail))
          [] type = "command" ->
               Some(<<"Command not found", ": ">> \o Interpolate(detail)
                    \o <<". Check if it's installed or in PATH.">>)
          [] type = "permission" ->
               Some(<<"Try running with elevated permissions or check file ownership.">>)
          [] OTHER -> None]

\* The (category, pattern) pairs in the order the two loops of detect
\* visit them.
RECURSIVE Flatten(_)
Flatten(entries) ==
  IF entries = <<>> THEN <<>>
  ELSE [n \in 1..Len(entries[1].list) |->
          [type |-> entries[1].type, pat |-> entries[1].list[n]]]
       \o Flatten(Tail(entries))

\* detect reading stderr alone
detect_errorOnly(context) ==
  LET errorText == context.error
      all == Flatten(patterns)
      hits == {n \in 1..Len(all) : RegexMatch(errorText, all[n].pat).ok}
  IN IF errorText = <<>> THEN None
     ELSE IF hits # {}
     THEN LET n == Min(hits)
              match == RegexMatch(errorText, all[n].pat)
          IN Some(createAnalysis(all[n].type, match.m0, errorText, match.m1))
     ELSE Some([type |-> "unknown",
                message |-> FirstLine(errorText),
                confidence |-> 50,
                file |-> None, line |-> None, suggestion |-> None])

\* detect taking the whole text for the message of an unknown error
detect_unknownWholeText(context) ==
  LET errorText == OrElse(context.error, context.output)
      all == Flatten(patterns)
      hits == {n \in 1..Len(all) : RegexMatch(errorText, all[n].pat).ok}
  IN IF errorText = <<>> THEN None
     ELSE IF hits # {}
     THEN LET n == Min(hits)
              match == RegexMatch(errorText, all[n].pat)
          IN Some(createAnalysis(all[n].type, match.m0, errorText, match.m1))
     ELSE Some([type |-> "unknown",
                message |-> errorText,
                confidence |-> 50,
                file |-> None, line |-> None, suggestion |-> None])

\* detect going through every pattern and keeping the last match
detect_lastMatch(context) ==
  LET errorText == OrElse(context.error, context.output)
      all == Flatten(patterns)
      hits == {n \in 1..Len(all) : RegexMatch(errorText, all[n].pat).ok}
  IN IF errorText = <<>> THEN None
     ELSE IF hits # {}
     THEN LET n == Max(hits)
              match == RegexMatch(errorText, all[n].pat)
          IN Some(createAnalysis(all[n].type, match.m0, errorText, match.m1))
     ELSE Some([type |-> "unknown",
                message |-> FirstLine(errorText),
                confidence |-> 50,
                file |-> None, line |-> None, suggestion |-> None])

detect(context) ==
  LET errorText == OrElse(context.error, context.output)
      all == Flatten(patterns)
      hits == {n \in 1..Len(all) : RegexMatch(errorText, all[n].pat).ok}
  IN IF errorText = <<>> THEN None
     ELSE IF hits # {}
     THEN LET n == Min(hits)
              match == RegexMatch(errorText, all[n].pat)
          IN Some(createAnalysis(all[n].type, match.m0, errorText, match.m1))
     ELSE Some([type |-> "unknown",
                message |-> FirstLine(errorText),
                confidence |-> 50,
                file |-> None, line |-> None, suggestion |-> None])

(***************************************************************************)
(* OllamaService                                                           *)
(***************************************************************************)
\* What the Ollama server answers to list(): it cannot be reached, or it
\* holds the default model, or it does not.
Listings == {"unreachable", "nomodel", "hasmodel"}

\* The texts the model generates.
GatewayTexts == { <<>>, <<" ">>, <<" ", "npm install", NL>> }

\* What ollama.generate does: it throws or it returns a text.
Generations == {[throws |-> TRUE, response |-> <<>>]}
               \cup {[throws |-> FALSE, response |-> t] : t \in GatewayTexts}

\* listModels catches the failure of list() and answers [], so that
\* hasModel is false when the server cannot be reached.
hasModel(listing) == listing = "hasmodel"

generateResponse(listing, generation) ==
  IF ~hasModel(listing) THEN [outcome |-> "ModelNotFound", text |-> <<>>]
  ELSE IF generation.throws THEN [outcome |-> "GenerateFailed", text |-> <<>>]
  ELSE [outcome |-> "ok", text |-> generation.response]

(***************************************************************************)
(* DebugEngine: the fixes                                                  *)
(***************************************************************************)
\* The closure of a fix is kept as what it does when called: the kind of
\* the operation and the value it captured.
Fix(type, description, confidence, kind, arg, cwd) ==
  [type |-> type, description |-> description, confidence |-> confidence,
   apply |-> [kind |-> kind, arg |-> arg, cwd |-> cwd]]

\* /Cannot find module '(.+)'|Module not found: (.+)/ : the leftmost match
\* of either alternative, the first alternative at equal positions.
createModuleInstallFix(analysis) ==
  LET p1 == <<Lit("Cannot find module"), Lit(" "), Lit("'"), Dot, Lit("'")>>
      p2 == <<Lit("Module not found"), Lit(": "), Dot>>
      msg == analysis.message
      s1 == {i \in 1..Len(msg) : MatchFrom(p1, msg, 1, i).ok}
      s2 == {i \in 1..Len(msg) : MatchFrom(p2, msg, 1, i).ok}
      g1 == IF s1 # {} /\ (s2 = {} \/ Min(s1) <= Min(s2))
            THEN MatchFrom(p1, msg, 1, Min(s1)).groups[1] ELSE <<>>
      g2 == IF s2 # {} /\ (s1 = {} \/ Min(s2) < Min(s1))
            THEN MatchFrom(p2, msg, 1, Min(s2)).groups[1] ELSE <<>>
      moduleName == OrElse(OrElse(g1, g2), <<"unknown">>)
  IN Fix("install_package", <<"Install missing module", ": ">> \o moduleName,
         90, "install", moduleName, "")

createCommandFix(analysis) ==
  LET commandMatch == RegexMatch(analysis.message,
                                 <<Lit("command not found"), Lit(": "), Dot>>)
      command == OrElse(IF commandMatch.ok THEN Get(commandMatch.m1) ELSE <<>>,
                        <<"unknown">>)
  IN Fix("command", <<"Install or add", " ">> \o command \o <<" ", "to PATH">>,
         80, "advise", command, "")

createPermissionFix(analysis) ==
  Fix("permission_change", <<"Fix file permissions">>, 70, "chmod",
      IF IsSome(analysis.file) THEN Get(analysis.file) ELSE <<>>, "")

\* createAIFix after its await: fixCommand is what generateResponse returned.
\* The result is the array generateFixes pushes it to: empty for null.
createAIFix(session, fixCommand) ==
  IF fixCommand = <<>> \/ trim(fixCommand) = <<>> THEN <<>>
  ELSE << Fix("command", <<"Run suggested fix", ": ">> \o trim(fixCommand),
              60, "exec", trim(fixCommand), session.context.workingDirectory) >>

LockFiles == {"bun.lockb", "pnpm-lock.yaml", "yarn.lock", "package-lock.json"}

managers ==
  << [cmd |-> "bun", file |-> "bun.lockb"],
     [cmd |-> "pnpm", file |-> "pnpm-lock.yaml"],
     [cmd |-> "yarn", file |-> "yarn.lock"],
     [cmd |-> "npm", file |-> "package-lock.json"] >>

\* detectPackageManager going through all the managers and keeping the
\* last one whose lock file is found
detectPackageManager_lastFound(present) ==
  LET found == {n \in 1..Len(managers) : managers[n].file \in present}
  IN IF found # {} THEN managers[Max(found)].cmd ELSE "npm"

\* present: the lock files fs.access finds.
detectPackageManager(present) ==
  LET found == {n \in 1..Len(managers) : managers[n].file \in present}
  IN IF found # {} THEN managers[Min(found)].cmd ELSE "npm"

\* RunApply where the permission fix runs chmod without looking at
\* analysis.file
RunApply_chmodUnguarded(apply, present, execOk) ==
  CASE apply.kind = "install" ->
         [spawned |-> <<detectPackageManager(present), " ", "add", " ">> \o apply.arg,
          ok |-> execOk]
    [] apply.kind = "advise" -> [spawned |-> <<>>, ok |-> TRUE]
    [] apply.kind = "chmod" ->
         [spawned |-> <<"chmod +x", " ">> \o apply.arg, ok |-> execOk]
    [] apply.kind = "exec" -> [spawned |-> apply.arg, ok |-> execOk]

\* A call of fix.apply(): the command line it hands to execAsync (<<>> when
\* it spawns nothing) and whether it resolves; execOk is whether the
\* spawned command exits with 0.
RunApply(apply, present, execOk) ==
  CASE apply.kind = "install" ->
         [spawned |-> <<detectPackageManager(present), " ", "add", " ">> \o apply.arg,
          ok |-> execOk]
    [] apply.kind = "advise" -> [spawned |-> <<>>, ok |-> TRUE]
    [] apply.kind = "chmod" ->
         IF apply.arg # <<>>
         THEN [spawned |-> <<"chmod +x", " ">> \o apply.arg, ok |-> execOk]
         ELSE [spawned |-> <<>>, ok |-> TRUE]
    [] apply.kind = "exec" -> [spawned |-> apply.arg, ok |-> execOk]

(***************************************************************************)
(* The inputs                                                              *)
(***************************************************************************)
MaxSessions == 1   \* sessions created in a run
MaxRuns == 2       \* calls of one fix's apply() in a run

\* The values randomBytes(8).toString('hex') is drawn from.
SessionIds == 1..(MaxSessions + 1)

\* The callers of the engine's methods.
Callers == {"cli", "other"}

\* The fixIndex arguments.
FixIndexes == {-1, 0, 1}

Context(command, error, output) ==
  [command |-> command, error |-> error, output |-> output,
   workingDirectory |-> "/test"]

Contexts ==
  { Context(<<"true">>, <<>>, <<>>),
    Context(<<"node test.js">>,
            <<"SyntaxError", ": ", "Unexpected token", " ", "}">>, <<>>),
    Context(<<"node app.js">>,
            <<"TypeError", ": ", "x is undefined", NL, "    ", "at ",
              "Object.<anonymous>", " ", "(", "/Users/test/app.js", ":", "42",
              ":", "15", ")">>, <<>>),
    Context(<<"node app.js">>,
            <<"Error", ": ", "Cannot find module", " ", "'", "left-pad", "'">>, <<>>),
    Context(<<"node run.js">>,
            <<"ReferenceError", ": ", "x is not defined">>, <<"starting">>),
    Context(<<"./run.sh">>,
            <<"bash", ": ", "./run.sh", ": ", "Permission denied">>, <<>>),
    Context(<<"node tool.js">>,
            <<"Permission denied", NL, "    ", "at ", "run", " ", "(",
              "/a/run.sh", ":", "3", ":", "1", ")">>, <<>>),
    Context(<<"gitx status">>,
            <<"zsh", ": ", "command not found", ": ", "gitx">>, <<>>),
    Context(<<"make">>, <<>>, <<"Some random error occurred", NL, "more">>) }

\* One error text for each pattern of the detector, in the order of the
\* patterns object, and two texts that no pattern matches.
PatternTexts ==
  << <<"SyntaxError", ": ", "Unexpected end of input">>,
     <<"ParseError", ": ", "syntax error">>,
     <<"Unexpected token", " ", "}">>,
     <<"Unterminated", " ", "string constant">>,
     <<"TypeError", ": ", "x is undefined">>,
     <<"Type", " ", "'", "string", "'", " ", "is not assignable to type",
       " ", "'", "number", "'">>,
     <<"Property", " ", "'", "name", "'", " ", "does not exist on type",
       " ", "'", "User", "'">>,
     <<"Cannot find module", " ", "'", "express", "'">>,
     <<"Module not found", ": ", "express">>,
     <<"Failed to resolve import", " ", "\"", "express", "\"">>,
     <<"No module named", " ", "'", "express", "'">>,
     <<"ReferenceError", ": ", "x is not defined">>,
     <<"RangeError", ": ", "Invalid array length">>,
     <<"Maximum call stack size exceeded">>,
     <<"Permission denied">>,
     <<"EACCES", ": ", "permission denied">>,
     <<"Operation not permitted">>,
     <<"command not found", ": ", "gitx">>,
     <<"bash", ": ", "gitx", ": ", "command not found">>,
     <<"zsh", ": ", "command not found", ": ", "gitx">>,
     <<"Some random error occurred">>,
     <<"Segmentation fault", NL, "core dumped">> >>

\* What precedes the error on its line, and what follows it: nothing, a
\* stack frame on the next line, or a location on the same line before
\* the stack frame.
Prefixes == { <<>>, <<"Error", ": ">> }
StackFrame == <<NL, "    ", "at ", "Foo", " ", "(", "/a/b/c.ext", ":", "42", ":", "7", ")">>
Suffixes == { <<>>, StackFrame, <<" ", "in ", "cfg", ":", "3">> \o StackFrame }

\* The texts of two patterns on two lines, for one pattern of each category.
Ambiguous == {3, 5, 8, 12, 15, 19}

ClassifyTexts ==
  {p \o PatternTexts[n] \o s :
     p \in Prefixes, n \in 1..Len(PatternTexts), s \in Suffixes}
  \cup {PatternTexts[m] \o <<NL>> \o PatternTexts[n] \o s :
          m \in Ambiguous, n \in Ambiguous, s \in {<<>>, StackFrame}}

ClassifyContexts ==
  {Context(<<"npm test">>, text, <<>>) : text \in ClassifyTexts}
  \cup {Context(<<"npm test">>, <<>>, PatternTexts[n]) : n \in {1, 8, 19, 21}}
  \cup {Context(<<"true">>, <<>>, <<>>)}

(***************************************************************************)
(* DebugEngine: the state                                                  *)
(***************************************************************************)
VARIABLES
  sessions,   \* the sessions map: session id -> DebugSession
  calls,      \* caller -> the method call it has in flight
  applyRuns,  \* session id -> for each fix of session.fixes, the number
              \* of times its apply() was called
  flow,       \* the debug command of the CLI: where its action stands and
              \* what it has got so far
  proc        \* one executeCommand call: the child process, the closure's
              \* stdout and stderr, and what the promise resolved to

vars == <<sessions, calls, applyRuns, flow, proc>>

\* A call in flight: the method and its arguments, where it stands
\* (idle, detect, gateway, micro, apply, settled), its locals (analysis,
\* aiAnalysis, fixCommand, fixes, fix), how its promise settled, the
\* command line the deferred operation spawned and the lock files
\* detectPackageManager found for it.
Call(op, phase, sid, idx, analysis, fixes, outcome, spawned) ==
  [op |-> op, phase |-> phase, sessionId |-> sid, fixIndex |-> idx,
   analysis |-> analysis, aiAnalysis |-> None, fixCommand |-> None,
   fixes |-> fixes, outcome |-> outcome, spawned |-> spawned,
   present |-> None]

Idle == Call("none", "idle", 0, 0, None, <<>>, "none", <<>>)

Settled(op, sid, idx, outcome) ==
  Call(op, "settled", sid, idx, None, <<>>, outcome, <<>>)

Put(f, k, v) == [i \in DOMAIN f \cup {k} |-> IF i = k THEN v ELSE f[i]]

\* session.fixes[fixIndex] is an object (truthy)
HasFix(session, fixIndex) ==
  /\ IsSome(session.fixes)
  /\ fixIndex \in 0..(Len(Get(session.fixes)) - 1)

\* The debug command before its action runs: the engine is constructed,
\* nothing is initialized, executed, asked or applied.
FlowStart ==
  [pc |-> "initialize", initialized |-> FALSE, listing |-> "none", pulls |-> 0,
   runs |-> 0, exitCode |-> 0, context |-> None, sessionId |-> 0, fixes |-> 0,
   answer |-> "none", fixIndex |-> 0]

\* executeCommand has not been called.
NotSpawned ==
  [state |-> "none", stdout |-> <<>>, stderr |-> <<>>, result |-> None,
   resolves |-> 0, errored |-> FALSE, code |-> None]

Init ==
  /\ sessions = [i \in {} |-> 0]
  /\ calls = [c \in Callers |-> Idle]
  /\ applyRuns = [i \in {} |-> 0]
  /\ flow = FlowStart
  /\ proc = NotSpawned

(***************************************************************************)
(* DebugEngine: the methods                                                *)
(***************************************************************************)
\* new Date() is kept as a logical clock: the number of sessions stored
\* when it is read.
createSession(c, sessionId, context) ==
  /\ calls[c].phase = "idle"
  /\ sessions' = Put(sessions, sessionId,
                     [id |-> sessionId, startTime |-> Cardinality(DOMAIN sessions),
                      context |-> context, analysis |-> None,
                      fixes |-> None, applied |-> FALSE])
  /\ applyRuns' = Put(applyRuns, sessionId, <<>>)
  /\ calls' = [calls EXCEPT ![c] = Settled("createSession", sessionId, 0, "ok")]

\* analyzeError without the lookup guard: an unknown identifier goes on to
\* the detector
analyzeError_noSessionCheck(c, sessionId) ==
  /\ calls[c].phase = "idle"
  /\ calls' = [calls EXCEPT
                 ![c] = IF sessionId \notin DOMAIN sessions
                        THEN Settled("analyzeError", sessionId, 0, "none")
                        ELSE Call("analyzeError", "detect", sessionId, 0,
                                  None, <<>>, "none", <<>>)]
  /\ UNCHANGED <<sessions, applyRuns>>

\* analyzeError up to its first await
analyzeError(c, sessionId) ==
  /\ calls[c].phase = "idle"
  /\ IF sessionId \notin DOMAIN sessions
     THEN calls' = [calls EXCEPT
                      ![c] = Settled("analyzeError", sessionId, 0, "SessionNotFound")]
     ELSE calls' = [calls EXCEPT
                      ![c] = Call("analyzeError", "detect", sessionId, 0,
                                  None, <<>>, "none", <<>>)]
  /\ UNCHANGED <<sessions, applyRuns>>

\* analyzeErrorDetected storing the pattern-based analysis on the session
\* before it asks the gateway
analyzeErrorDetected_storesEarly(c) ==
  /\ calls[c].op = "analyzeError" /\ calls[c].phase = "detect"
  /\ LET session == sessions[calls[c].sessionId]
         analysis == detect(session.context)
     IN IF ~IsSome(analysis)
        THEN /\ calls' = [calls EXCEPT
                            ![c] = Settled("analyzeError", session.id, 0, "null")]
             /\ UNCHANGED sessions
        ELSE /\ calls' = [calls EXCEPT ![c].phase = "gateway",
                                       ![c].analysis = analysis]
             /\ sessions' = [sessions EXCEPT ![session.id].analysis = analysis]
  /\ UNCHANGED applyRuns

\* analyzeError from the result of detect to the call of the gateway
analyzeErrorDetected(c) ==
  /\ calls[c].op = "analyzeError" /\ calls[c].phase = "detect"
  /\ LET session == sessions[calls[c].sessionId]
         analysis == detect(session.context)
     IN IF ~IsSome(analysis)
        THEN calls' = [calls EXCEPT
                         ![c] = Settled("analyzeError", session.id, 0, "null")]
        ELSE calls' = [calls EXCEPT ![c].phase = "gateway",
                                    ![c].analysis = analysis]
  /\ UNCHANGED <<sessions, applyRuns>>

\* analyzeErrorReply where the gateway's text only fills in a suggestion
\* that createAnalysis left out
analyzeErrorReply_keepsSuggestion(c, listing, generation) ==
  /\ calls[c].op = "analyzeError" /\ calls[c].phase = "gateway"
  /\ LET sid == calls[c].sessionId
         aiAnalysis == generateResponse(listing, generation)
         detected == Get(calls[c].analysis)
         analysis == IF IsSome(detected.suggestion) THEN detected
                     ELSE [detected EXCEPT !.suggestion = Some(aiAnalysis.text)]
     IN IF aiAnalysis.outcome # "ok"
        THEN /\ calls' = [calls EXCEPT
                            ![c] = Settled("analyzeError", sid, 0, aiAnalysis.outcome)]
             /\ UNCHANGED sessions
        ELSE /\ sessions' = [sessions EXCEPT ![sid].analysis = Some(analysis)]
             /\ calls' = [calls EXCEPT
                            ![c] = [Settled("analyzeError", sid, 0, "ok") EXCEPT
                                      !.aiAnalysis = Some(aiAnalysis.text)]]
  /\ UNCHANGED applyRuns

\* analyzeError from the answer of the gateway to its return
analyzeErrorReply(c, listing, generation) ==
  /\ calls[c].op = "analyzeError" /\ calls[c].phase = "gateway"
  /\ LET sid == calls[c].sessionId
         aiAnalysis == generateResponse(listing, generation)
         analysis == [Get(calls[c].analysis) EXCEPT
                        !.suggestion = Some(aiAnalysis.text)]
     IN IF aiAnalysis.outcome # "ok"
        THEN /\ calls' = [calls EXCEPT
                            ![c] = Settled("analyzeError", sid, 0, aiAnalysis.outcome)]
             /\ UNCHANGED sessions
        ELSE /\ sessions' = [sessions EXCEPT ![sid].analysis = Some(analysis)]
             /\ calls' = [calls EXCEPT
                            ![c] = [Settled("analyzeError", sid, 0, "ok") EXCEPT
                                      !.aiAnalysis = Some(aiAnalysis.text)]]
  /\ UNCHANGED applyRuns

\* generateFixes checking the session alone: a session without analysis
\* falls to the default branch of the switch
generateFixes_noAnalysisGuard(c, sessionId) ==
  /\ calls[c].phase = "idle"
  /\ IF sessionId \notin DOMAIN sessions
     THEN calls' = [calls EXCEPT
                      ![c] = Settled("generateFixes", sessionId, 0, "NoAnalysis")]
     ELSE LET type == IF IsSome(sessions[sessionId].analysis)
                      THEN Get(sessions[sessionId].analysis).type ELSE "undefined"
              started(phase, fixes) ==
                Call("generateFixes", phase, sessionId, 0, None, fixes, "none", <<>>)
          IN calls' = [calls EXCEPT ![c] =
               CASE type = "module" ->
                      started("micro", <<createModuleInstallFix(Get(sessions[sessionId].analysis))>>)
                 [] type = "command" ->
                      started("micro", <<createCommandFix(Get(sessions[sessionId].analysis))>>)
                 [] type = "permission" ->
                      started("micro", <<createPermissionFix(Get(sessions[sessionId].analysis))>>)
                 [] OTHER -> started("gateway", <<>>)]
  /\ UNCHANGED <<sessions, applyRuns>>

\* generateFixes up to its first await
generateFixes(c, sessionId) ==
  /\ calls[c].phase = "idle"
  /\ IF sessionId \notin DOMAIN sessions \/ ~IsSome(sessions[sessionId].analysis)
     THEN calls' = [calls EXCEPT
                      ![c] = Settled("generateFixes", sessionId, 0, "NoAnalysis")]
     ELSE LET analysis == Get(sessions[sessionId].analysis)
              started(phase, fixes) ==
                Call("generateFixes", phase, sessionId, 0, None, fixes, "none", <<>>)
          IN calls' = [calls EXCEPT ![c] =
               CASE analysis.type = "module" ->
                      started("micro", <<createModuleInstallFix(analysis)>>)
                 [] analysis.type = "command" ->
                      started("micro", <<createCommandFix(analysis)>>)
                 [] analysis.type = "permission" ->
                      started("micro", <<createPermissionFix(analysis)>>)
                 [] OTHER -> started("gateway", <<>>)]
  /\ UNCHANGED <<sessions, applyRuns>>

\* session.fixes = fixes; return fixes
StoreFixes(c, sid, fixes) ==
  /\ sessions' = [sessions EXCEPT ![sid].fixes = Some(fixes)]
  /\ applyRuns' = [applyRuns EXCEPT ![sid] = [n \in 1..Len(fixes) |-> 0]]
  /\ calls' = [calls EXCEPT ![c] = Settled("generateFixes", sid, 0, "ok")]

\* generateFixes after the await of a rule-based fix
generateFixesResume(c) ==
  /\ calls[c].op = "generateFixes" /\ calls[c].phase = "micro"
  /\ StoreFixes(c, calls[c].sessionId, calls[c].fixes)

\* generateFixes from the answer of the gateway (in createAIFix) to its return
generateFixesReply(c, listing, generation) ==
  /\ calls[c].op = "generateFixes" /\ calls[c].phase = "gateway"
  /\ LET sid == calls[c].sessionId
         fixCommand == generateResponse(listing, generation)
     IN IF fixCommand.outcome # "ok"
        THEN /\ calls' = [calls EXCEPT
                            ![c] = Settled("generateFixes", sid, 0, fixCommand.outcome)]
             /\ UNCHANGED <<sessions, applyRuns>>
        ELSE /\ sessions' = [sessions EXCEPT ![sid].fixes =
                               Some(createAIFix(sessions[sid], fixCommand.text))]
             /\ applyRuns' = [applyRuns EXCEPT ![sid] =
                                [n \in 1..Len(createAIFix(sessions[sid], fixCommand.text))
                                   |-> 0]]
             /\ calls' = [calls EXCEPT
                            ![c] = [Settled("generateFixes", sid, 0, "ok") EXCEPT
                                      !.fixCommand = Some(fixCommand.text)]]

\* applyFix without the check of session.fixes[fixIndex]: fix is undefined
\* and fix.apply() throws a TypeError
applyFix_noIndexCheck(c, sessionId, fixIndex) ==
  /\ calls[c].phase = "idle"
  /\ IF sessionId \notin DOMAIN sessions \/ ~IsSome(sessions[sessionId].fixes)
     THEN /\ calls' = [calls EXCEPT
                         ![c] = Settled("applyFix", sessionId, fixIndex, "FixNotFound")]
          /\ UNCHANGED applyRuns
     ELSE IF ~HasFix(sessions[sessionId], fixIndex)
     THEN /\ calls' = [calls EXCEPT
                         ![c] = Settled("applyFix", sessionId, fixIndex, "TypeError")]
          /\ UNCHANGED applyRuns
     ELSE /\ calls' = [calls EXCEPT ![c] =
                         Call("applyFix", "apply", sessionId, fixIndex, None,
                              <<Get(sessions[sessionId].fixes)[fixIndex + 1]>>,
                              "none", <<>>)]
          /\ applyRuns' = [applyRuns EXCEPT ![sessionId][fixIndex + 1] = @ + 1]
  /\ UNCHANGED sessions

\* applyFix not awaiting fix.apply(): applied is set while it runs
applyFix_notAwaited(c, sessionId, fixIndex) ==
  /\ calls[c].phase = "idle"
  /\ IF sessionId \notin DOMAIN sessions \/ ~HasFix(sessions[sessionId], fixIndex)
     THEN /\ calls' = [calls EXCEPT
                         ![c] = Settled("applyFix", sessionId, fixIndex, "FixNotFound")]
          /\ UNCHANGED <<applyRuns, sessions>>
     ELSE /\ calls' = [calls EXCEPT ![c] =
                         Call("applyFix", "apply", sessionId, fixIndex, None,
                              <<Get(sessions[sessionId].fixes)[fixIndex + 1]>>,
                              "none", <<>>)]
          /\ applyRuns' = [applyRuns EXCEPT ![sessionId][fixIndex + 1] = @ + 1]
          /\ sessions' = [sessions EXCEPT ![sessionId].applied = TRUE]

\* applyFix up to its await: the call of fix.apply()
applyFix(c, sessionId, fixIndex) ==
  /\ calls[c].phase = "idle"
  /\ IF sessionId \notin DOMAIN sessions \/ ~HasFix(sessions[sessionId], fixIndex)
     THEN /\ calls' = [calls EXCEPT
                         ![c] = Settled("applyFix", sessionId, fixIndex, "FixNotFound")]
          /\ UNCHANGED applyRuns
     ELSE /\ calls' = [calls EXCEPT ![c] =
                         Call("applyFix", "apply", sessionId, fixIndex, None,
                              <<Get(sessions[sessionId].fixes)[fixIndex + 1]>>,
                              "none", <<>>)]
          /\ applyRuns' = [applyRuns EXCEPT ![sessionId][fixIndex + 1] = @ + 1]
  /\ UNCHANGED sessions

\* applyFix from the end of fix.apply() to its return
applyFixDone(c, present, execOk) ==
  /\ calls[c].op = "applyFix" /\ calls[c].phase = "apply"
  /\ LET sid == calls[c].sessionId
         fix == calls[c].fixes[1]
         run == RunApply(fix.apply, present, execOk)
         found == IF fix.apply.kind = "install" THEN Some(present) ELSE None
     IN IF run.ok
        THEN /\ sessions' = [sessions EXCEPT ![sid].applied = TRUE]
             /\ calls' = [calls EXCEPT ![c] =
                            [Settled("applyFix", sid, calls[c].fixIndex, "ok")
                               EXCEPT !.spawned = run.spawned, !.present = found]]
        ELSE /\ calls' = [calls EXCEPT ![c] =
                            [Settled("applyFix", sid, calls[c].fixIndex, "ApplyFailed")
                               EXCEPT !.spawned = run.spawned, !.present = found]]
             /\ UNCHANGED sessions
  /\ UNCHANGED applyRuns

getSession(c, sessionId) ==
  /\ calls[c].phase = "idle"
  /\ calls' = [calls EXCEPT ![c] =
                 Settled("getSession", sessionId, 0,
                         IF sessionId \in DOMAIN sessions THEN "ok" ELSE "undefined")]
  /\ UNCHANGED <<sessions, applyRuns>>

\* The caller takes the settled promise.
Return(c) ==
  /\ calls[c].phase = "settled"
  /\ calls' = [calls EXCEPT ![c] = Idle]
  /\ UNCHANGED <<sessions, applyRuns>>

(***************************************************************************)
(* The engine driven by a caller that awaits every call before the next    *)
(* (the CLI does): at most one call is in flight.                          *)
(***************************************************************************)
Quiescent == \A c \in Callers : calls[c].phase = "idle"

\* randomBytes(8) is taken to return a value no stored session has; the
\* engine only compares identifiers, so the least such value stands for all.
FreshIds == {Min(SessionIds \ DOMAIN sessions)}

BelowRunCap(sessionId, fixIndex) ==
  sessionId \in DOMAIN sessions /\ HasFix(sessions[sessionId], fixIndex)
    => applyRuns[sessionId][fixIndex + 1] < MaxRuns

StepOn(c, cap, contexts) ==
  \/ /\ Quiescent
     /\ Cardinality(DOMAIN sessions) < cap
     /\ \E id \in FreshIds, context \in contexts : createSession(c, id, context)
     /\ UNCHANGED <<flow, proc>>
  \/ Quiescent /\ (\E id \in SessionIds : analyzeError(c, id)) /\ UNCHANGED <<flow, proc>>
  \/ analyzeErrorDetected(c) /\ UNCHANGED <<flow, proc>>
  \/ (\E l \in Listings, g \in Generations : analyzeErrorReply(c, l, g))
     /\ UNCHANGED <<flow, proc>>
  \/ Quiescent /\ (\E id \in SessionIds : generateFixes(c, id)) /\ UNCHANGED <<flow, proc>>
  \/ generateFixesResume(c) /\ UNCHANGED <<flow, proc>>
  \/ (\E l \in Listings, g \in Generations : generateFixesReply(c, l, g))
     /\ UNCHANGED <<flow, proc>>
  \/ /\ Quiescent
     /\ \E id \in SessionIds, i \in FixIndexes :
          BelowRunCap(id, i) /\ applyFix(c, id, i)
     /\ UNCHANGED <<flow, proc>>
  \/ (\E present \in SUBSET LockFiles, execOk \in BOOLEAN :
        applyFixDone(c, present, execOk))
     /\ UNCHANGED <<flow, proc>>
  \/ Quiescent /\ (\E id \in SessionIds : getSession(c, id)) /\ UNCHANGED <<flow, proc>>
  \/ Return(c) /\ UNCHANGED <<flow, proc>>

Step(c, cap) == StepOn(c, cap, Contexts)

Next == Step("cli", MaxSessions)

Spec == Init /\ [][Next]_vars

\* The same with one more session in the store, for what is said of the
\* other sessions.
NextPair == Step("cli", MaxSessions + 1)

SpecPair == Init /\ [][NextPair]_vars

\* randomBytes(8) is drawn without consulting the store: the engine where
\* the eight bytes may also repeat an identifier that is already stored
NextCollide ==
  \/ Step("cli", MaxSessions)
  \/ /\ Quiescent
     /\ \E id \in DOMAIN sessions, context \in Contexts :
          createSession("cli", id, context)
     /\ UNCHANGED <<flow, proc>>
SpecCollide == Init /\ [][NextCollide]_vars

\* The contexts of the sessions that overlapping calls are made on: one
\* whose fix comes from the gateway and one whose fix is rule-based.
OverlapContexts ==
  { Context(<<"node test.js">>,
            <<"SyntaxError", ": ", "Unexpected token", " ", "}">>, <<>>),
    Context(<<"node app.js">>,
            <<"Error", ": ", "Cannot find module", " ", "'", "left-pad", "'">>, <<>>) }

\* The engine driven by a caller that does not await: c issues a call
\* while a call of another caller is suspended in the gateway or in a
\* fix's apply().
StepOverlap(c) ==
  \/ /\ Quiescent
     /\ Cardinality(DOMAIN sessions) < MaxSessions
     /\ \E id \in FreshIds, context \in OverlapContexts : createSession(c, id, context)
     /\ UNCHANGED <<flow, proc>>
  \/ (\E id \in DOMAIN sessions : analyzeError(c, id)) /\ UNCHANGED <<flow, proc>>
  \/ analyzeErrorDetected(c) /\ UNCHANGED <<flow, proc>>
  \/ (\E l \in Listings, g \in Generations : analyzeErrorReply(c, l, g))
     /\ UNCHANGED <<flow, proc>>
  \/ (\E id \in DOMAIN sessions : generateFixes(c, id)) /\ UNCHANGED <<flow, proc>>
  \/ generateFixesResume(c) /\ UNCHANGED <<flow, proc>>
  \/ (\E l \in Listings, g \in Generations : generateFixesReply(c, l, g))
     /\ UNCHANGED <<flow, proc>>
  \/ /\ \E id \in DOMAIN sessions, i \in FixIndexes :
          BelowRunCap(id, i) /\ applyFix(c, id, i)
     /\ UNCHANGED <<flow, proc>>
  \/ (\E present \in SUBSET LockFiles, execOk \in BOOLEAN :
        applyFixDone(c, present, execOk))
     /\ UNCHANGED <<flow, proc>>
  \/ Return(c) /\ UNCHANGED <<flow, proc>>

NextOverlap == StepOverlap("cli") \/ StepOverlap("other")
SpecOverlap == Init /\ [][NextOverlap]_vars

\* The engine on one session whose context is drawn from the error texts
\* of every pattern of the detector.
NextClassify == StepOn("cli", 1, ClassifyContexts)
SpecClassify == Init /\ [][NextClassify]_vars

(***************************************************************************)
(* The debug command of the CLI: its action is one sequential async         *)
(* function, cut at its awaits; process.exit ends it.                      *)
(***************************************************************************)
\* What the user may type at the question.
Answers == {"n", "N", "0", "1", "2", "1x", "x", ""}

\* parseInt(answer): the number its leading digits denote, NaN (None) when
\* it has none
ParsedAnswer(answer) ==
  CASE answer = "0" -> Some(0)
    [] answer \in {"1", "1x"} -> Some(1)
    [] answer = "2" -> Some(2)
    [] OTHER -> None

\* answer.toLowerCase()
toLowerCase(answer) == IF answer = "N" THEN "n" ELSE answer

\* createDebugContext of the command and what executeCommand returned for it
createDebugContext(command, result) ==
  Context(command, result.stderr, result.stdout)

\* The results of executeCommand for the sample commands, with the exit
\* code of the child process.
ExecutionResults ==
  {[command |-> context.command, stdout |-> context.output,
    stderr |-> context.error, exitCode |-> code] :
     context \in Contexts, code \in {0, 1}}

\* initialize up to the answer of isAvailable; the action's catch ends the
\* process when it throws
initialize(listing) ==
  /\ flow.pc = "initialize"
  /\ flow' = [flow EXCEPT !.listing = listing,
                          !.pc = IF listing = "unreachable" THEN "exit1"
                                 ELSE "hasModel"]
  /\ UNCHANGED <<sessions, calls, applyRuns, proc>>

\* initialize from the answer of hasModel: listModels gives [] when the
\* server cannot be reached
initializeHasModel(listing) ==
  /\ flow.pc = "hasModel"
  /\ flow' = IF hasModel(listing)
             THEN [flow EXCEPT !.listing = listing, !.initialized = TRUE,
                               !.pc = "command"]
             ELSE [flow EXCEPT !.listing = listing, !.pulls = @ + 1,
                               !.pc = "pullModel"]
  /\ UNCHANGED <<sessions, calls, applyRuns, proc>>

\* initialize from the end of pullModel, which throws when the pull fails
initializePulled(ok) ==
  /\ flow.pc = "pullModel"
  /\ flow' = IF ok THEN [flow EXCEPT !.initialized = TRUE, !.pc = "command"]
             ELSE [flow EXCEPT !.pc = "exit1"]
  /\ UNCHANGED <<sessions, calls, applyRuns, proc>>

\* The command to debug: given, or found by captureLastCommand, or not
debugCommand(found) ==
  /\ flow.pc = "command"
  /\ flow' = [flow EXCEPT !.pc = IF found THEN "executeCommand" ELSE "exit1"]
  /\ UNCHANGED <<sessions, calls, applyRuns, proc>>

\* executeCommand(command) has returned result
debugExecuted(result) ==
  /\ flow.pc = "executeCommand"
  /\ flow' = IF result.exitCode = 0
             THEN [flow EXCEPT !.runs = @ + 1, !.pc = "exit0"]
             ELSE [flow EXCEPT !.runs = @ + 1, !.exitCode = result.exitCode,
                     !.pc = "createSession",
                     !.context = Some(createDebugContext(result.command, result))]
  /\ UNCHANGED <<sessions, calls, applyRuns, proc>>

debugCreateSession ==
  /\ flow.pc = "createSession"
  /\ \E id \in FreshIds : createSession("cli", id, Get(flow.context))
  /\ flow' = [flow EXCEPT !.pc = "created"]
  /\ UNCHANGED proc

debugCreated ==
  /\ flow.pc = "created"
  /\ Return("cli")
  /\ flow' = [flow EXCEPT !.sessionId = calls["cli"].sessionId,
                          !.pc = "analyzeError"]
  /\ UNCHANGED proc

debugAnalyze ==
  /\ flow.pc = "analyzeError"
  /\ analyzeError("cli", flow.sessionId)
  /\ flow' = [flow EXCEPT !.pc = "analyzing"]
  /\ UNCHANGED proc

\* analyzeError has settled: null ends the process, and so does a rejection
debugAnalyzed ==
  /\ flow.pc = "analyzing"
  /\ Return("cli")
  /\ flow' = [flow EXCEPT !.pc = IF calls["cli"].outcome = "ok"
                                 THEN "generateFixes" ELSE "exit1"]
  /\ UNCHANGED proc

debugGenerate ==
  /\ flow.pc = "generateFixes"
  /\ generateFixes("cli", flow.sessionId)
  /\ flow' = [flow EXCEPT !.pc = "generating"]
  /\ UNCHANGED proc

\* generateFixes has settled: fixes.length === 0 ends the process
debugGenerated ==
  /\ flow.pc = "generating"
  /\ Return("cli")
  /\ LET fixes == IF calls["cli"].outcome = "ok"
                  THEN Len(Get(sessions[flow.sessionId].fixes)) ELSE 0
     IN flow' = [flow EXCEPT !.fixes = fixes,
                             !.pc = IF fixes = 0 THEN "exit1" ELSE "question"]
  /\ UNCHANGED proc

\* The user has answered the question.
debugAnswered(answer) ==
  /\ flow.pc = "question"
  /\ LET fixIndex == ParsedAnswer(answer)
     IN flow' =
          IF toLowerCase(answer) = "n"
          THEN [flow EXCEPT !.answer = answer, !.pc = "exit0"]
          ELSE IF ~IsSome(fixIndex) \/ Get(fixIndex) - 1 < 0
                  \/ Get(fixIndex) - 1 >= flow.fixes
          THEN [flow EXCEPT !.answer = answer, !.pc = "exit1"]
          ELSE [flow EXCEPT !.answer = answer, !.fixIndex = Get(fixIndex) - 1,
                            !.pc = "applyFix"]
  /\ UNCHANGED <<sessions, calls, applyRuns, proc>>

debugApply ==
  /\ flow.pc = "applyFix"
  /\ applyFix("cli", flow.sessionId, flow.fixIndex)
  /\ flow' = [flow EXCEPT !.pc = "applying"]
  /\ UNCHANGED proc

\* debugApplied re-running the command in its catch block as well
debugApplied_rerunsAlways ==
  /\ flow.pc = "applying"
  /\ Return("cli")
  /\ flow' = [flow EXCEPT !.pc = "rerun"]
  /\ UNCHANGED proc

\* applyFix has settled: the catch block ends the process
debugApplied ==
  /\ flow.pc = "applying"
  /\ Return("cli")
  /\ flow' = [flow EXCEPT !.pc = IF calls["cli"].outcome = "ok"
                                 THEN "rerun" ELSE "exit1"]
  /\ UNCHANGED proc

\* The re-run of the original command has returned.
debugRerun(result) ==
  /\ flow.pc = "rerun"
  /\ flow' = [flow EXCEPT !.runs = @ + 1, !.pc = "done"]
  /\ UNCHANGED <<sessions, calls, applyRuns, proc>>

NextDebug ==
  \/ \E listing \in Listings : initialize(listing)
  \/ \E listing \in Listings : initializeHasModel(listing)
  \/ \E ok \in BOOLEAN : initializePulled(ok)
  \/ \E found \in BOOLEAN : debugCommand(found)
  \/ \E result \in ExecutionResults : debugExecuted(result)
  \/ debugCreateSession
  \/ debugCreated
  \/ debugAnalyze
  \/ analyzeErrorDetected("cli") /\ UNCHANGED <<flow, proc>>
  \/ (\E l \in Listings, g \in Generations : analyzeErrorReply("cli", l, g))
     /\ UNCHANGED <<flow, proc>>
  \/ debugAnalyzed
  \/ debugGenerate
  \/ generateFixesResume("cli") /\ UNCHANGED <<flow, proc>>
  \/ (\E l \in Listings, g \in Generations : generateFixesReply("cli", l, g))
     /\ UNCHANGED <<flow, proc>>
  \/ debugGenerated
  \/ \E answer \in Answers : debugAnswered(answer)
  \/ debugApply
  \/ (\E present \in SUBSET LockFiles, execOk \in BOOLEAN :
        applyFixDone("cli", present, execOk))
     /\ UNCHANGED <<flow, proc>>
  \/ debugApplied
  \/ \E result \in ExecutionResults : debugRerun(result)

SpecDebug == Init /\ [][NextDebug]_vars

(***************************************************************************)
(* commandExecutor: executeCommand, a promise resolved by the handlers of   *)
(* the child process's events                                              *)
(***************************************************************************)
MaxChunks == 2   \* 'data' events of one stream in a run

\* What a 'data' event carries.
Chunks == { <<"out">>, <<" ">>, <<NL>> }

\* error.message of an 'error' event
ErrorMessages == { <<"spawn /bin/sh ENOENT">> }

\* The code of a 'close' event: the exit code, or null (None) when the
\* child was ended by a signal.
CloseCodes == {None, Some(0), Some(1), Some(127)}

\* resolve(value): only the first call settles the promise
resolve(value) ==
  IF IsSome(proc.result) THEN [proc EXCEPT !.resolves = @ + 1]
  ELSE [proc EXCEPT !.result = Some(value), !.resolves = @ + 1]

\* code || 0
CodeOrZero(code) == IF IsSome(code) /\ Get(code) # 0 THEN Get(code) ELSE 0

\* executeCommand up to the return of its promise: the child is spawned
\* and the four handlers are registered
executeCommand ==
  /\ proc.state = "none"
  /\ proc' = [proc EXCEPT !.state = "running"]
  /\ UNCHANGED <<sessions, calls, applyRuns, flow>>

\* proc.stdout.on('data')
stdoutData(data, chunks) ==
  /\ proc.state = "running" /\ chunks < MaxChunks
  /\ proc' = [proc EXCEPT !.stdout = @ \o data]
  /\ UNCHANGED <<sessions, calls, applyRuns, flow>>

\* proc.stderr.on('data')
stderrData(data, chunks) ==
  /\ proc.state = "running" /\ chunks < MaxChunks
  /\ proc' = [proc EXCEPT !.stderr = @ \o data]
  /\ UNCHANGED <<sessions, calls, applyRuns, flow>>

\* proc.on('close'): the streams have ended, no event follows but 'error'
onClose(code) ==
  /\ proc.state = "running"
  /\ proc' = [resolve([stdout |-> trim(proc.stdout), stderr |-> trim(proc.stderr),
                       exitCode |-> CodeOrZero(code)])
                EXCEPT !.state = "closed", !.code = code]
  /\ UNCHANGED <<sessions, calls, applyRuns, flow>>

\* proc.on('error'): emitted once, before or after 'close'
onError(message) ==
  /\ proc.state \in {"running", "closed"} /\ ~proc.errored
  /\ proc' = [resolve([stdout |-> trim(proc.stdout),
                       stderr |-> trim(proc.stderr \o message),
                       exitCode |-> 1])
                EXCEPT !.stderr = proc.stderr \o message, !.errored = TRUE]
  /\ UNCHANGED <<sessions, calls, applyRuns, flow>>

\* The number of 'data' events a stream has had: every chunk is one lexeme.
NextExecute ==
  \/ executeCommand
  \/ \E data \in Chunks : stdoutData(data, Len(proc.stdout))
  \/ \E data \in Chunks :
       stderrData(data, Len(SelectSeq(proc.stderr, LAMBDA t : <<t>> \in Chunks)))
  \/ \E code \in CloseCodes : onClose(code)
  \/ \E message \in ErrorMessages : onError(message)

SpecExecute == Init /\ [][NextExecute]_vars

(***************************************************************************)
(* Properties                                                              *)
(***************************************************************************)
GatewayErrors == {"ModelNotFound", "GenerateFailed"}

\* The step is the invocation of method op by caller c.
Invokes(c, op) == calls[c].phase = "idle" /\ calls'[c].op = op

\* The step settles the call of method op that caller c had pending.
Settles(c, op) ==
  /\ calls[c].op = op /\ calls[c].phase \notin {"idle", "settled"}
  /\ calls'[c].phase = "settled"

\* C1: once analyzeError has stored a Diagnosis on a session no later call
\* replaces or changes it, and once generateFixes has stored a FixActions
\* list no later call replaces or changes it.
C1_WriteOnce ==
  [][\A sid \in DOMAIN sessions :
       /\ IsSome(sessions[sid].analysis)
            => sessions'[sid].analysis = sessions[sid].analysis
       /\ IsSome(sessions[sid].fixes)
            => sessions'[sid].fixes = sessions[sid].fixes]_vars

\* C2: the deferred operation of every fix of every session is executed at
\* most once.
C2_ApplyAtMostOnce ==
  \A sid \in DOMAIN applyRuns :
    \A n \in DOMAIN applyRuns[sid] : applyRuns[sid][n] <= 1

\* The session is unknown, or it has no stored list, or the list is empty,
\* or the index is no position of the list.
InvalidFix(sid, i) ==
  \/ sid \notin DOMAIN sessions
  \/ ~IsSome(sessions[sid].fixes)
  \/ Get(sessions[sid].fixes) = <<>>
  \/ i < 0
  \/ i >= Len(Get(sessions[sid].fixes))

\* C3: applyFix on an unknown session, a session without a stored list, an
\* empty list or an index that is no position of the list fails with
\* 'Fix not found', invokes no deferred operation and changes no session;
\* a session without a stored list is never applied.
C3_FixNotFound ==
  [][/\ \A c \in Callers :
          Invokes(c, "applyFix")
          /\ InvalidFix(calls'[c].sessionId, calls'[c].fixIndex)
          => /\ calls'[c].phase = "settled"
             /\ calls'[c].outcome = "FixNotFound"
             /\ sessions' = sessions
             /\ applyRuns' = applyRuns
     /\ \A sid \in DOMAIN sessions' :
          ~IsSome(sessions'[sid].fixes) => ~sessions'[sid].applied]_vars

\* applyFix has failed on a stored session whose list is stored: the list
\* is empty or the index is out of it.
C3_Witness ==
  \E c \in Callers :
    /\ calls[c].op = "applyFix" /\ calls[c].outcome = "FixNotFound"
    /\ calls[c].sessionId \in DOMAIN sessions
    /\ IsSome(sessions[calls[c].sessionId].fixes)
    /\ calls[c].fixIndex # 0

\* C4: a session has a list only with a Diagnosis, is applied only with
\* both, loses neither, never returns from applied, and does not change
\* once it is applied.
C4_ForwardOnly ==
  [][\A sid \in DOMAIN sessions :
       LET s == sessions[sid]
           t == sessions'[sid]
       IN /\ IsSome(t.fixes) => IsSome(t.analysis)
          /\ t.applied => IsSome(t.analysis) /\ IsSome(t.fixes)
          /\ IsSome(s.analysis) => IsSome(t.analysis)
          /\ IsSome(s.fixes) => IsSome(t.fixes)
          /\ s.applied => t.applied
          /\ s.applied => t = s]_vars

\* C5: when the deferred operation fails, applyFix fails and the session's
\* applied flag is false afterwards.
C5_FailedApplyLeavesUnapplied ==
  [][\A c \in Callers :
       Settles(c, "applyFix") /\ calls'[c].outcome = "ApplyFailed"
       => ~sessions'[calls'[c].sessionId].applied]_vars

\* C6: applyFix on a fixes-ready session with a valid index calls the
\* apply() of the fix at that index once and no other, leaves applied false
\* while the operation is pending and sets it when the operation succeeded.
C6_ApplyOnceThenMark ==
  [][\A c \in Callers :
       LET sid == calls'[c].sessionId
           n == calls'[c].fixIndex + 1
       IN /\ ( /\ Invokes(c, "applyFix")
               /\ ~InvalidFix(sid, calls'[c].fixIndex)
               /\ ~sessions[sid].applied )
             => /\ calls'[c].phase = "apply"
                /\ calls'[c].fixes = <<Get(sessions[sid].fixes)[n]>>
                /\ applyRuns'[sid][n] = applyRuns[sid][n] + 1
                /\ \A s \in DOMAIN applyRuns : \A m \in DOMAIN applyRuns[s] :
                     <<s, m>> # <<sid, n>> => applyRuns'[s][m] = applyRuns[s][m]
                /\ sessions' = sessions
          /\ ( /\ Settles(c, "applyFix")
               /\ ~sessions[sid].applied )
             => /\ applyRuns' = applyRuns
                /\ calls'[c].outcome \in {"ok", "ApplyFailed"}
                /\ sessions' = [sessions EXCEPT
                                  ![sid].applied = (calls'[c].outcome = "ok")]]_vars

\* A first applyFix has succeeded on one session while another session
\* holds a fix that was never applied.
C6_Witness ==
  \E c \in Callers :
    /\ calls[c].op = "applyFix" /\ calls[c].outcome = "ok"
    /\ sessions[calls[c].sessionId].applied
    /\ applyRuns[calls[c].sessionId][calls[c].fixIndex + 1] = 1
    /\ \E other \in DOMAIN sessions \ {calls[c].sessionId} :
         applyRuns[other] = <<0>>

\* C7: while the gateway call of analyzeError or generateFixes is pending,
\* and when it has failed, the sessions are as they were before the call;
\* analyzeError and generateFixes change a session only in the step that
\* takes the gateway's successful answer (or, for a rule-based fix, that
\* ends the call with success).
C7_NoPartialCommit ==
  [][\A c \in Callers :
       /\ calls'[c].phase = "gateway" => sessions' = sessions
       /\ calls[c].phase = "gateway" /\ calls'[c].outcome \in GatewayErrors
            => sessions' = sessions
       /\ calls'[c].op \in {"analyzeError", "generateFixes"} /\ sessions' # sessions
            => /\ calls[c].phase \in {"gateway", "micro"}
               /\ calls[c].phase = "gateway" \/ calls[c].op = "generateFixes"
               /\ calls'[c].phase = "settled" /\ calls'[c].outcome = "ok"]_vars

\* The gateway call of analyzeError has failed and the session has no
\* Diagnosis.
C7_Witness ==
  \E c \in Callers :
    /\ calls[c].op = "analyzeError" /\ calls[c].outcome \in GatewayErrors
    /\ ~IsSome(sessions[calls[c].sessionId].analysis)

\* The session held a Diagnosis when generateFixes was invoked on it.
HadAnalysis(c) ==
  /\ calls[c].sessionId \in DOMAIN sessions
  /\ IsSome(sessions[calls[c].sessionId].analysis)

\* C8: generateFixes on a session holding a Diagnosis of any category
\* returns a list and does not fail, whatever the gateway does.
C8_SynthesisNeverRaises ==
  \A c \in Callers :
    calls[c].op = "generateFixes" /\ calls[c].phase = "settled" /\ HadAnalysis(c)
    => calls[c].outcome = "ok"

\* C9: generateFixes on a stored session without Diagnosis fails with the
\* no-analysis error, calls no gateway and changes nothing.
C9_NoDiagnosis ==
  [][\A c \in Callers :
       /\ Invokes(c, "generateFixes")
       /\ calls'[c].sessionId \in DOMAIN sessions
       /\ ~IsSome(sessions[calls'[c].sessionId].analysis)
       => /\ calls'[c].phase = "settled"
          /\ calls'[c].outcome = "NoAnalysis"
          /\ sessions' = sessions
          /\ applyRuns' = applyRuns]_vars

\* generateFixes has failed for want of a Diagnosis on a stored session
\* whose context the classifier does diagnose (analyzeError was not called
\* on it, or failed in the gateway).
C9_Witness ==
  \E c \in Callers :
    /\ calls[c].op = "generateFixes" /\ calls[c].outcome = "NoAnalysis"
    /\ calls[c].sessionId \in DOMAIN sessions
    /\ IsSome(detect(sessions[calls[c].sessionId].context))

NothingCaptured(context) == context.error = <<>> /\ context.output = <<>>

\* C10: for a context with empty stderr and stdout the classifier returns
\* absent, and analyzeError returns absent without a gateway call and
\* without changing the session, which stays created; for a context with
\* stderr or stdout the classifier returns a Diagnosis.
C10_NothingToDiagnose ==
  [][/\ \A c \in Callers :
          calls[c].op = "analyzeError" /\ calls[c].phase = "detect"
          => IF NothingCaptured(sessions[calls[c].sessionId].context)
             THEN /\ calls'[c].phase = "settled" /\ calls'[c].outcome = "null"
                  /\ sessions' = sessions
             ELSE calls'[c].phase = "gateway" /\ IsSome(calls'[c].analysis)
     /\ \A sid \in DOMAIN sessions' \ DOMAIN sessions :
          detect(sessions'[sid].context) = None
            <=> NothingCaptured(sessions'[sid].context)
     /\ \A sid \in DOMAIN sessions' :
          LET t == sessions'[sid]
          IN NothingCaptured(t.context)
             => ~IsSome(t.analysis) /\ ~IsSome(t.fixes) /\ ~t.applied]_vars

\* analyzeError has returned absent on a stored session.
C10_Witness ==
  \E c \in Callers :
    /\ calls[c].op = "analyzeError" /\ calls[c].outcome = "null"
    /\ calls[c].sessionId \in DOMAIN sessions
    /\ NothingCaptured(sessions[calls[c].sessionId].context)

\* C11: for an identifier under which no session is stored, analyzeError
\* fails at once with 'Session not found' and getSession returns undefined
\* without failing; neither call reaches the detector or the gateway,
\* creates a session or changes a stored one.
C11_UnknownSession ==
  [][\A c \in Callers :
       /\ Invokes(c, "analyzeError") /\ calls'[c].sessionId \notin DOMAIN sessions
          => /\ calls'[c].phase = "settled"
             /\ calls'[c].outcome = "SessionNotFound"
             /\ sessions' = sessions
             /\ applyRuns' = applyRuns
       /\ Invokes(c, "getSession") /\ calls'[c].sessionId \notin DOMAIN sessions
          => /\ calls'[c].phase = "settled"
             /\ calls'[c].outcome = "undefined"
             /\ sessions' = sessions
             /\ applyRuns' = applyRuns]_vars

\* analyzeError has failed on an identifier that is not in the store while
\* another session is stored.
C11_Witness ==
  \E c \in Callers :
    /\ calls[c].op = "analyzeError" /\ calls[c].outcome = "SessionNotFound"
    /\ calls[c].sessionId \notin DOMAIN sessions
    /\ DOMAIN sessions # {}

\* C12: every createSession call returns an identifier under which no
\* session is stored yet, stores under it a new session in state created
\* (no analysis, no fixes, applied false), and leaves every session that
\* was stored as it was.
C12_FreshSession ==
  [][\A c \in Callers :
       Invokes(c, "createSession")
       => LET id == calls'[c].sessionId
          IN /\ id \notin DOMAIN sessions
             /\ id \in DOMAIN sessions'
             /\ ~IsSome(sessions'[id].analysis)
             /\ ~IsSome(sessions'[id].fixes)
             /\ ~sessions'[id].applied
             /\ \A sid \in DOMAIN sessions :
                  sid \in DOMAIN sessions' /\ sessions'[sid] = sessions[sid]]_vars

\* C13: when analyzeError succeeds, the analysis stored on the session has
\* the type, message, file, line and confidence that detect gives for the
\* session's context (confidence 0.8 for a pattern, 0.5 for unknown), and
\* its suggestion is the text the gateway returned, whatever suggestion
\* createAnalysis had made.
C13_StoredAnalysis ==
  [][\A c \in Callers :
       Settles(c, "analyzeError") /\ calls'[c].outcome = "ok"
       => LET sid == calls[c].sessionId
              detected == detect(sessions[sid].context)
              stored == sessions'[sid].analysis
          IN /\ IsSome(detected) /\ IsSome(stored)
             /\ Get(stored).type = Get(detected).type
             /\ Get(stored).message = Get(detected).message
             /\ Get(stored).file = Get(detected).file
             /\ Get(stored).line = Get(detected).line
             /\ Get(stored).confidence = Get(detected).confidence
             /\ Get(stored).confidence =
                  IF Get(stored).type = "unknown" THEN 50 ELSE 80
             /\ IsSome(calls'[c].aiAnalysis)
             /\ Get(stored).suggestion = calls'[c].aiAnalysis]_vars

\* analyzeError has succeeded on a session for which createAnalysis made a
\* suggestion of its own, and the gateway returned a text with a command.
C13_Witness ==
  \E c \in Callers :
    /\ calls[c].op = "analyzeError" /\ calls[c].outcome = "ok"
    /\ calls[c].sessionId \in DOMAIN sessions
    /\ LET session == sessions[calls[c].sessionId]
       IN /\ IsSome(Get(detect(session.context)).suggestion)
          /\ IsSome(Get(detect(session.context)).file)
          /\ Get(session.analysis).suggestion = Some(<<" ", "npm install", NL>>)

\* detect has returned an analysis to the analyzeError call of caller c.
Detected(c) == calls[c].op = "analyzeError" /\ calls[c].phase = "gateway"

\* The text detect was given by that call.
ErrorText(c) ==
  LET context == sessions[calls[c].sessionId].context
  IN OrElse(context.error, context.output)

\* Some pattern of the k-th category matches the text.
MatchesCategory(text, k) ==
  \E n \in 1..Len(patterns[k].list) : RegexMatch(text, patterns[k].list[n]).ok

IsInfix(part, text) ==
  \E i \in 1..Len(text), j \in 1..Len(text) : SubSeq(text, i, j) = part

\* C14 as stated: whenever a pattern of a category matches the error text,
\* detect returns that category with confidence 0.8 and as message the
\* substring a pattern of that category matched.
C14_AnyMatchingCategory ==
  \A c \in Callers :
    Detected(c)
    => LET text == ErrorText(c)
           analysis == Get(calls[c].analysis)
       IN \A k \in 1..Len(patterns) :
            MatchesCategory(text, k)
            => /\ analysis.type = patterns[k].type
               /\ analysis.confidence = 80
               /\ \E n \in 1..Len(patterns[k].list) :
                    /\ RegexMatch(text, patterns[k].list[n]).ok
                    /\ analysis.message = RegexMatch(text, patterns[k].list[n]).m0

\* C14: when a pattern matches the error text, detect returns the first
\* category of the patterns object that has a matching pattern, with
\* confidence 0.8, and its message is the whole substring matched by the
\* first matching pattern of that category: a part of the text, neither
\* the raw text nor cut short.
C14_FirstMatchingCategory ==
  \A c \in Callers :
    Detected(c)
    => LET text == ErrorText(c)
           analysis == Get(calls[c].analysis)
           ks == {k \in 1..Len(patterns) : MatchesCategory(text, k)}
       IN ks # {}
          => LET k == Min(ks)
                 n == Min({i \in 1..Len(patterns[k].list) :
                             RegexMatch(text, patterns[k].list[i]).ok})
             IN /\ analysis.type = patterns[k].type
                /\ analysis.confidence = 80
                /\ analysis.message = RegexMatch(text, patterns[k].list[n]).m0
                /\ IsInfix(analysis.message, text)

\* detect has classified a text in which the matched part is preceded by
\* 'Error: ' and followed by a stack frame, and in which a later category
\* matches as well.
C14_Witness ==
  \E c \in Callers :
    /\ Detected(c)
    /\ Get(calls[c].analysis).type = "module"
    /\ Get(calls[c].analysis).message # FirstLine(ErrorText(c))
    /\ \E k \in 1..Len(patterns) :
         patterns[k].type = "command" /\ MatchesCategory(ErrorText(c), k)

\* The priority order of the categories.
CategoryOrder == <<"syntax", "type", "module", "runtime", "permission", "command">>

\* The patterns of a category, in declaration order.
PatternsOf(type) ==
  patterns[CHOOSE k \in 1..Len(patterns) : patterns[k].type = type].list

MatchesType(text, type) ==
  \E n \in 1..Len(PatternsOf(type)) : RegexMatch(text, PatternsOf(type)[n]).ok

\* C15: when patterns of several categories match the error text, detect
\* returns the one that comes first in the order syntax, type, module,
\* runtime, permission, command, wherever in the text the matches lie, and
\* no pattern declared before the one whose match is the message matches;
\* a text matching a syntax and a command pattern is syntax.
C15_CategoryPriority ==
  \A c \in Callers :
    Detected(c)
    => LET text == ErrorText(c)
           analysis == Get(calls[c].analysis)
           ranks == {i \in 1..Len(CategoryOrder) : MatchesType(text, CategoryOrder[i])}
       IN /\ ranks # {}
             => /\ analysis.type = CategoryOrder[Min(ranks)]
                /\ \E n \in 1..Len(PatternsOf(analysis.type)) :
                     /\ RegexMatch(text, PatternsOf(analysis.type)[n]).ok
                     /\ analysis.message = RegexMatch(text, PatternsOf(analysis.type)[n]).m0
                     /\ \A i \in 1..(n - 1) :
                          ~RegexMatch(text, PatternsOf(analysis.type)[i]).ok
          /\ MatchesType(text, "syntax") /\ MatchesType(text, "command")
             => analysis.type = "syntax"

\* detect has classified as syntax a text whose first line matches a
\* command pattern and whose second line matches a syntax pattern.
C15_Witness ==
  \E c \in Callers :
    /\ Detected(c)
    /\ Get(calls[c].analysis).type = "syntax"
    /\ MatchesType(FirstLine(ErrorText(c)), "command")
    /\ ~MatchesType(FirstLine(ErrorText(c)), "syntax")

\* line is the text up to its first line break, or all of it.
IsFirstLineOf(line, text) ==
  /\ Len(line) <= Len(text)
  /\ line = SubSeq(text, 1, Len(line))
  /\ \A i \in 1..Len(line) : line[i] # NL
  /\ Len(line) < Len(text) => text[Len(line) + 1] = NL

\* C16: for a non-empty error text that no pattern of any category matches,
\* detect returns type unknown, confidence 0.5, the first line of the text
\* as message, and no suggestion, file or line.
C16_Unknown ==
  \A c \in Callers :
    Detected(c)
    => LET text == ErrorText(c)
           analysis == Get(calls[c].analysis)
       IN text # <<>> /\ (\A i \in 1..Len(CategoryOrder) : ~MatchesType(text, CategoryOrder[i]))
          => /\ analysis.type = "unknown"
             /\ analysis.confidence = 50
             /\ IsFirstLineOf(analysis.message, text)
             /\ ~IsSome(analysis.suggestion)
             /\ ~IsSome(analysis.file)
             /\ ~IsSome(analysis.line)

\* detect has returned unknown for a text of several lines that holds a
\* stack frame.
C16_Witness ==
  \E c \in Callers :
    /\ Detected(c)
    /\ Get(calls[c].analysis).type = "unknown"
    /\ Len(Get(calls[c].analysis).message) < Len(ErrorText(c))
    /\ FileMatch(ErrorText(c)).ok

\* The stack-frame fragment at Foo (/a/b/c.ext:42:7)
Fragment == <<"at ", "Foo", " ", "(", "/a/b/c.ext", ":", "42", ":", "7", ")">>

\* The fragment lies in the text, ends its line, and its 'at ' is the first
\* 'at ', 'in ' or 'from ' of the text.
FragmentFirst(text) ==
  \E i \in 1..Len(text) :
    /\ i + Len(Fragment) - 1 <= Len(text)
    /\ SubSeq(text, i, i + Len(Fragment) - 1) = Fragment
    /\ i + Len(Fragment) <= Len(text) => text[i + Len(Fragment)] = NL
    /\ \A j \in 1..(i - 1) : text[j] \notin {"at ", "in ", "from "}

\* C17 as stated: for every error text that holds the fragment
\* at Foo (/a/b/c.ext:42:7), the analysis detect returns has file
\* /a/b/c.ext and line 42, whatever its type.
C17_LocationOfAnyText ==
  \A c \in Callers :
    Detected(c) /\ IsInfix(Fragment, ErrorText(c))
    => /\ Get(calls[c].analysis).file = Some(<<"/a/b/c.ext">>)
       /\ Get(calls[c].analysis).line = Some(42)

\* C17: for every error text that a pattern of some category matches and
\* in which the fragment at Foo (/a/b/c.ext:42:7) ends its line and is
\* preceded by no other 'at ', 'in ' or 'from ', the analysis has file
\* /a/b/c.ext and line 42, whichever of the six categories it got; an
\* analysis of type unknown has neither file nor line.
C17_LocationOfFirstFrame ==
  \A c \in Callers :
    Detected(c)
    => LET text == ErrorText(c)
           analysis == Get(calls[c].analysis)
       IN /\ (\E i \in 1..Len(CategoryOrder) : MatchesType(text, CategoryOrder[i]))
             /\ FragmentFirst(text)
             => /\ analysis.file = Some(<<"/a/b/c.ext">>)
                /\ analysis.line = Some(42)
          /\ analysis.type = "unknown"
             => ~IsSome(analysis.file) /\ ~IsSome(analysis.line)

\* detect has classified as permission a text whose second line is the
\* stack frame.
C17_Witness ==
  \E c \in Callers :
    /\ Detected(c)
    /\ Get(calls[c].analysis).type = "permission"
    /\ FragmentFirst(ErrorText(c))
    /\ Get(calls[c].analysis).line = Some(42)

\* The session has an analysis of the given type and a stored list of fixes.
HasFixesFor(sid, type) ==
  /\ IsSome(sessions[sid].analysis)
  /\ Get(sessions[sid].analysis).type = type
  /\ IsSome(sessions[sid].fixes)

\* The description names what each pattern of the category that matches
\* the message has captured.
NamesCaptured(description, message, type) ==
  \A n \in 1..Len(PatternsOf(type)) :
    LET match == RegexMatch(message, PatternsOf(type)[n])
    IN match.ok /\ IsSome(match.m1) => IsInfix(Get(match.m1), description)

\* C19: the list generateFixes stores for a module analysis, whichever of
\* the four module patterns gave its message, is one fix of type
\* install_package with confidence 0.9 whose description contains the
\* module name of the message.
C19_ModuleFix ==
  \A sid \in DOMAIN sessions :
    HasFixesFor(sid, "module")
    => LET fixes == Get(sessions[sid].fixes)
       IN /\ Len(fixes) = 1
          /\ fixes[1].type = "install_package"
          /\ fixes[1].confidence = 90
          /\ NamesCaptured(fixes[1].description,
                           Get(sessions[sid].analysis).message, "module")

\* C20: the list generateFixes stores for a command analysis, whichever of
\* the three command patterns gave its message, is one fix of type command
\* with confidence 0.8 whose description names the command of the message,
\* and whose apply spawns nothing and does not fail.
C20_CommandFix ==
  \A sid \in DOMAIN sessions :
    HasFixesFor(sid, "command")
    => LET fixes == Get(sessions[sid].fixes)
       IN /\ Len(fixes) = 1
          /\ fixes[1].type = "command"
          /\ fixes[1].confidence = 80
          /\ NamesCaptured(fixes[1].description,
                           Get(sessions[sid].analysis).message, "command")
          /\ \A present \in SUBSET LockFiles, execOk \in BOOLEAN :
               RunApply(fixes[1].apply, present, execOk) = [spawned |-> <<>>, ok |-> TRUE]

\* C21: for a permission analysis generateFixes stores one fix of type
\* permission_change with confidence 0.7; applying it when the analysis has
\* no file succeeds and spawns nothing, and when it has a file the one
\* command spawned is chmod +x of that file.
C21_PermissionFix ==
  [][\A c \in Callers :
       LET sid == calls[c].sessionId
       IN /\ Settles(c, "generateFixes") /\ calls'[c].outcome = "ok"
             /\ Get(sessions[sid].analysis).type = "permission"
             => LET fixes == Get(sessions'[sid].fixes)
                IN /\ Len(fixes) = 1
                   /\ fixes[1].type = "permission_change"
                   /\ fixes[1].confidence = 70
          /\ Settles(c, "applyFix")
             /\ Get(sessions[sid].analysis).type = "permission"
             => LET file == Get(sessions[sid].analysis).file
                IN IF IsSome(file)
                   THEN calls'[c].spawned = <<"chmod +x", " ">> \o Get(file)
                   ELSE /\ calls'[c].outcome = "ok"
                        /\ calls'[c].spawned = <<>>]_vars

\* The permission fix of an analysis without a file has been applied, and
\* the session is marked applied.
C21_Witness ==
  \E c \in Callers :
    /\ calls[c].op = "applyFix" /\ calls[c].outcome = "ok"
    /\ calls[c].spawned = <<>>
    /\ calls[c].sessionId \in DOMAIN sessions
    /\ LET session == sessions[calls[c].sessionId]
       IN /\ Get(session.analysis).type = "permission"
          /\ ~IsSome(Get(session.analysis).file)
          /\ session.applied

\* The categories generateFixes has no rule for.
AITypes == {"syntax", "type", "runtime", "unknown"}

\* trimmed is text without the white space at its two ends.
IsTrimOf(trimmed, text) ==
  \E i \in 1..(Len(text) + 1), j \in 0..Len(text) :
    /\ trimmed = SubSeq(text, i, j)
    /\ \A k \in 1..(i - 1) : IsSpace(text[k])
    /\ \A k \in (j + 1)..Len(text) : IsSpace(text[k])
    /\ trimmed # <<>> => ~IsSpace(trimmed[1]) /\ ~IsSpace(trimmed[Len(trimmed)])

\* The generateFixes call of c returns from the one gateway call it made
\* for an analysis without a rule: the list it stores is empty when the
\* text is empty or white space, and else holds one fix of type command
\* with confidence 0.6 that runs the trimmed text in the working directory
\* of the session's context.
StoresAIFix(c) ==
  LET sid == calls[c].sessionId
  IN Settles(c, "generateFixes") /\ calls'[c].outcome = "ok"
     /\ Get(sessions[sid].analysis).type \in AITypes
     => /\ calls[c].phase = "gateway"
        /\ IsSome(calls'[c].fixCommand)
        /\ IsSome(sessions'[sid].fixes)
        /\ LET text == Get(calls'[c].fixCommand)
               fixes == Get(sessions'[sid].fixes)
           IN IF \A k \in 1..Len(text) : IsSpace(text[k])
              THEN fixes = <<>>
              ELSE /\ Len(fixes) = 1
                   /\ fixes[1].type = "command"
                   /\ fixes[1].confidence = 60
                   /\ fixes[1].apply.kind = "exec"
                   /\ IsTrimOf(fixes[1].apply.arg, text)
                   /\ fixes[1].apply.cwd = sessions[sid].context.workingDirectory
                   /\ RunApply(fixes[1].apply, {}, TRUE).spawned = fixes[1].apply.arg

\* C22: for an analysis of type syntax, type, runtime or unknown,
\* generateFixes asks the gateway once and stores the empty list for an
\* empty or white-space text and else one fix of type command, confidence
\* 0.6, running the trimmed text in the session's working directory; a
\* session whose list was stored empty keeps it, and every applyFix on it
\* fails with 'Fix not found'.
C22_AIFix ==
  [][/\ \A c \in Callers : StoresAIFix(c)
     /\ \A c \in Callers :
          Invokes(c, "applyFix") /\ calls'[c].sessionId \in DOMAIN sessions
          /\ sessions[calls'[c].sessionId].fixes = Some(<<>>)
          => calls'[c].outcome = "FixNotFound"
     /\ \A sid \in DOMAIN sessions :
          sessions[sid].fixes = Some(<<>>) /\ Get(sessions[sid].analysis).type \in AITypes
          => sessions'[sid].fixes = Some(<<>>)]_vars

SessionOps == {"createSession", "analyzeError", "generateFixes", "applyFix"}

\* No session operation is invoked before initialize has returned.
InitializedFirst ==
  \A c \in Callers :
    (\E op \in SessionOps : Invokes(c, op)) => flow.initialized

\* initialize returns only when the listing shows the default model or
\* the download it started has ended well.
InitializedWithModel ==
  ~flow.initialized /\ flow'.initialized
  => \/ flow.pc = "hasModel" /\ flow'.listing = "hasmodel" /\ flow'.pulls = flow.pulls
     \/ flow.pc = "pullModel" /\ flow.pulls = 1

\* C23: no session operation is invoked before initialize has returned;
\* when the server cannot be reached initialize fails and starts no
\* download; it starts a download only when the server's listing lacks the
\* default model; and it returns only once the listing shows the model
\* or the download has ended.
C23_InitializationGate ==
  [][/\ InitializedFirst
     /\ InitializedWithModel
     /\ flow'.pulls > flow.pulls => flow'.listing = "nomodel"
     /\ flow'.listing = "unreachable" /\ flow'.listing # flow.listing
        => /\ flow'.pulls = flow.pulls
           /\ flow'.pc = "exit1"]_vars

\* The promise of executeCommand resolves to one result and keeps it, and
\* it is resolved once the child has closed or failed.
OneResult ==
  /\ IsSome(proc.result) => proc'.result = proc.result
  /\ proc'.state = "closed" \/ proc'.errored => IsSome(proc'.result)

\* A 'close' with a nonzero code that comes first gives that code, and an
\* 'error' that comes first gives a nonzero code and its text in stderr.
FirstEventResult ==
  ~IsSome(proc.result) /\ IsSome(proc'.result)
  => LET result == Get(proc'.result)
     IN /\ proc'.state = "closed" /\ IsSome(proc'.code) /\ Get(proc'.code) # 0
           => result.exitCode = Get(proc'.code)
        /\ proc'.errored
           => /\ result.exitCode # 0
              /\ \E message \in ErrorMessages : IsInfix(message, result.stderr)

\* The child has ended otherwise than by exiting with code 0.
EndedAbnormally ==
  \/ proc.state = "closed" /\ proc.code # Some(0)
  \/ proc.state = "running" /\ proc.errored

\* C24: executeCommand resolves to exactly one result whatever the order
\* of the 'data', 'error' and 'close' events; a nonzero exit code is the
\* result's exitCode; and a child that could not be spawned or did not
\* end by a zero exit gives a nonzero exitCode, with the error text in
\* stderr when there was an 'error'.
C24_ExecutorResult ==
  [][/\ OneResult
     /\ FirstEventResult
     /\ EndedAbnormally' => Get(proc'.result).exitCode # 0]_vars

\* C25: no step changes the identifier, the creation time or the context
\* of a session of the store: under every identifier they stay the values
\* createSession stored.
C25_ImmutableOrigin ==
  [][\A sid \in DOMAIN sessions :
       /\ sid \in DOMAIN sessions'
       /\ sessions'[sid].id = sessions[sid].id
       /\ sessions'[sid].startTime = sessions[sid].startTime
       /\ sessions'[sid].context = sessions[sid].context]_vars

\* The manager of the first lock file present, in the order bun.lockb,
\* pnpm-lock.yaml, yarn.lock, package-lock.json, and npm when none is.
ManagerFor(present) ==
  IF "bun.lockb" \in present THEN "bun"
  ELSE IF "pnpm-lock.yaml" \in present THEN "pnpm"
  ELSE IF "yarn.lock" \in present THEN "yarn"
  ELSE "npm"

\* C26: every application of a module-install fix runs '<manager> add
\* <module>' where the manager is that of the first lock file present at
\* that application in the order bun.lockb, pnpm-lock.yaml, yarn.lock,
\* package-lock.json, and npm when none is present; the detection gives a
\* manager for every combination of lock files.
C26_PackageManager ==
  [][\A c \in Callers :
       Settles(c, "applyFix") /\ calls[c].fixes[1].apply.kind = "install"
       => /\ IsSome(calls'[c].present)
          /\ calls'[c].spawned =
               <<ManagerFor(Get(calls'[c].present)), " ", "add", " ">>
                 \o calls[c].fixes[1].apply.arg
          /\ calls'[c].outcome \in {"ok", "ApplyFailed"}]_vars

\* A module-install fix has been applied a second time, with yarn.lock and
\* package-lock.json present and with the session applied before.
C26_Witness ==
  \E c \in Callers :
    /\ calls[c].op = "applyFix" /\ calls[c].phase = "settled"
    /\ calls[c].present = Some({"yarn.lock", "package-lock.json"})
    /\ calls[c].spawned[1] = "yarn"
    /\ applyRuns[calls[c].sessionId][1] = 2

\* The step executes the command: the first run or the re-run.
Executes == flow'.runs = flow.runs + 1

\* C27: the debug command creates a session only after initialize has
\* returned and the command has run once and exited nonzero; it calls
\* analyzeError on that session, then generateFixes, each once; it calls
\* applyFix only with the index the answer selects, which lies within the
\* fixes shown (never after 'n' or an answer that selects none); and it
\* runs the command a second time only once applyFix has succeeded.
C27_DebugFlow ==
  [][/\ Executes => flow.initialized /\ flow.runs <= 1
     /\ Invokes("cli", "createSession")
        => /\ flow.initialized /\ flow.runs = 1 /\ flow.exitCode # 0
           /\ sessions = [i \in {} |-> 0]
     /\ Invokes("cli", "analyzeError")
        => /\ calls'["cli"].sessionId \in DOMAIN sessions
           /\ ~IsSome(sessions[calls'["cli"].sessionId].analysis)
     /\ Invokes("cli", "generateFixes")
        => /\ calls'["cli"].sessionId \in DOMAIN sessions
           /\ IsSome(sessions[calls'["cli"].sessionId].analysis)
           /\ ~IsSome(sessions[calls'["cli"].sessionId].fixes)
     /\ Invokes("cli", "applyFix")
        => /\ calls'["cli"].sessionId \in DOMAIN sessions
           /\ toLowerCase(flow.answer) # "n"
           /\ IsSome(ParsedAnswer(flow.answer))
           /\ Get(ParsedAnswer(flow.answer)) \in
                1..Len(Get(sessions[calls'["cli"].sessionId].fixes))
           /\ calls'["cli"].fixIndex = Get(ParsedAnswer(flow.answer)) - 1
           /\ calls'["cli"].phase = "apply"
           /\ ~sessions[calls'["cli"].sessionId].applied
     /\ Executes /\ flow.runs = 1
        => /\ flow.sessionId \in DOMAIN sessions
           /\ sessions[flow.sessionId].applied
           /\ applyRuns[flow.sessionId][flow.fixIndex + 1] = 1]_vars

\* The command has been run again after the fix the user chose was applied.
C27_Witness ==
  /\ flow.pc = "done" /\ flow.runs = 2
  /\ flow.answer = "1"
  /\ sessions[flow.sessionId].applied

\* Caller c has a call of analyzeError, generateFixes or applyFix on
\* session sid in progress, and the step is a step of that call.
OperatesOn(c, sid) ==
  /\ calls'[c] # calls[c]
  /\ calls[c].op \in {"analyzeError", "generateFixes", "applyFix"}
  /\ calls[c].phase \notin {"idle", "settled"}
  /\ calls[c].sessionId = sid

\* C28: a step of an operation on one session leaves every other stored
\* session as it was, and no step takes a session out of the store: every
\* session createSession stored stays under its identifier, changed only by
\* analyzeError, generateFixes and applyFix calls on that identifier.
C28_IsolationRetention ==
  [][\A sid \in DOMAIN sessions :
       /\ sid \in DOMAIN sessions'
       /\ sessions'[sid] # sessions[sid] => \E c \in Callers : OperatesOn(c, sid)]_vars

\* C29: under overlapping calls on one session, a successful applyFix has
\* run the fix that the session's list holds at its index when applied is
\* set; no fix's apply() runs more than once; and the list a generateFixes
\* call has returned stays the list of the session until its caller has
\* taken it and called applyFix.
C29_OverlapSafe ==
  [][\A c \in Callers :
       /\ Settles(c, "applyFix") /\ calls'[c].outcome = "ok"
          => /\ HasFix(sessions[calls[c].sessionId], calls[c].fixIndex)
             /\ Get(sessions[calls[c].sessionId].fixes)[calls[c].fixIndex + 1]
                  = calls[c].fixes[1]
       /\ \A sid \in DOMAIN applyRuns' :
            \A n \in DOMAIN applyRuns'[sid] : applyRuns'[sid][n] <= 1
       /\ calls[c].op = "generateFixes" /\ calls[c].phase = "settled"
            /\ calls[c].outcome = "ok"
          => sessions'[calls[c].sessionId].fixes
               = sessions[calls[c].sessionId].fixes]_vars

====
